---- MODULE Spec2Model ----
(***************************************************************************)
(* A model of CalendarCreator.py: configuration validation, the resolution *)
(* of single and recurring events for a date, the walk over a month grid   *)
(* and the page loop of main.                                              *)
(*                                                                         *)
(* Text is modelled as a sequence of one-character strings, so that        *)
(* parsing (datetime.strptime, int, str.isdigit, str.endswith) and         *)
(* formatting (the f-string of create_calendar_page) are computed and not  *)
(* assumed.  A configuration value that is not a string (an integer, a     *)
(* date object produced by the YAML loader, None) is the value NotStr.     *)
(***************************************************************************)
EXTENDS Integers, Sequences, FiniteSets, TLC

VARIABLES
    config,         \* the loaded configuration (main: config)
    pc,             \* position of the running function
    exc,            \* "none", or the exception that ended the run
    errors,         \* validation_errors returned by validate_config
    month_idx,      \* index of the months_to_print entry being rendered
    year, month,    \* arguments of create_calendar_page
    day,            \* day of the cell last passed to draw_events_for_date
    cal,            \* monthdayscalendar(year, month)
    wk, col,        \* position of the walk in cal
    events,         \* events argument of draw_events_for_date
    date_str,       \* date_str argument of draw_events_for_date
    event_strings,  \* what the last draw_events_for_date call drew
    log,            \* every completed draw_events_for_date call so far
    pages,          \* the months_to_print entries whose page was shown
    saved           \* the document was saved

vars == <<config, pc, exc, errors, month_idx, year, month, day, cal, wk, col,
          events, date_str, event_strings, log, pages, saved>>

----------------------------------------------------------------------------
(* Text and values *)

DecimalChars == {"0", "1", "2", "3", "4", "5", "6", "7", "8", "9"}

\* str.isdigit() holds of more than the decimal digits: a superscript two
\* is a digit for isdigit() and is not a decimal for int() or for \d.
DigitChars == DecimalChars \cup {"sup2"}

DigitVal(c) ==
    CASE c = "0" -> 0 [] c = "1" -> 1 [] c = "2" -> 2 [] c = "3" -> 3
      [] c = "4" -> 4 [] c = "5" -> 5 [] c = "6" -> 6 [] c = "7" -> 7
      [] c = "8" -> 8 [] c = "9" -> 9

DigitChar(n) == <<"0", "1", "2", "3", "4", "5", "6", "7", "8", "9">>[n + 1]

\* F applied to the value of e, with e evaluated once
With(e, F(_)) == CHOOSE y \in {F(x) : x \in {e}} : TRUE

Str(s) == [t |-> "str", s |-> s]

NotStr == [t |-> "obj", s |-> <<>>]

IsStr(v) == v.t = "str"

\* str.isdigit(): non-empty and every character a digit
isdigit(s) == Len(s) >= 1 /\ \A i \in 1..Len(s) : s[i] \in DigitChars

\* The number written by the first k characters of s, all decimal digits
RECURSIVE DecimalPrefix(_, _)
DecimalPrefix(s, k) == IF k = 0 THEN 0 ELSE 10 * DecimalPrefix(s, k - 1) + DigitVal(s[k])

DecimalValue(s) == DecimalPrefix(s, Len(s))

\* int(s) for a string s: the value, or ValueError
int(s) ==
    IF Len(s) >= 1 /\ \A i \in 1..Len(s) : s[i] \in DecimalChars
    THEN [exc |-> "none", val |-> DecimalValue(s)]
    ELSE [exc |-> "ValueError", val |-> 0]

\* str(n) for n >= 0, without padding
RECURSIVE str(_)
str(n) == IF n < 10 THEN <<DigitChar(n)>> ELSE str(n \div 10) \o <<DigitChar(n % 10)>>

\* format(n, "02"): at least two characters, zero-filled
Pad2(n) == IF n < 10 THEN <<"0">> \o str(n) ELSE str(n)

\* f"{year}-{month:02}-{day:02}"
FormatDate(y, m, d) == str(y) \o <<"-">> \o Pad2(m) \o <<"-">> \o Pad2(d)

----------------------------------------------------------------------------
(* datetime *)

is_leap(y) == y % 4 = 0 /\ (y % 100 # 0 \/ y % 400 = 0)

days_in_month(y, m) ==
    IF m = 2 THEN (IF is_leap(y) THEN 29 ELSE 28)
    ELSE IF m \in {4, 6, 9, 11} THEN 30 ELSE 31

days_before_year(y) ==
    (y - 1) * 365 + ((y - 1) \div 4) - ((y - 1) \div 100) + ((y - 1) \div 400)

RECURSIVE days_before_month(_, _)
days_before_month(y, m) ==
    IF m = 1 THEN 0 ELSE days_before_month(y, m - 1) + days_in_month(y, m - 1)

\* date.toordinal()
toordinal(dt) == days_before_year(dt.year) + days_before_month(dt.year, dt.month) + dt.day

\* date.weekday(): Monday is 0
weekday(y, m, d) == (toordinal([year |-> y, month |-> m, day |-> d]) + 6) % 7

NoDate == [year |-> 0, month |-> 0, day |-> 0]

Raised(e) == [exc |-> e, date |-> NoDate]

\* %m: 1[0-2]|0[1-9]|[1-9]
MonthField(s) ==
    \/ Len(s) = 2 /\ s[1] = "1" /\ s[2] \in {"0", "1", "2"}
    \/ Len(s) = 2 /\ s[1] = "0" /\ s[2] \in DecimalChars \ {"0"}
    \/ Len(s) = 1 /\ s[1] \in DecimalChars \ {"0"}

\* %d: 3[0-1]|[1-2]\d|0[1-9]|[1-9]| [1-9]
DayField(s) ==
    \/ Len(s) = 2 /\ s[1] = "3" /\ s[2] \in {"0", "1"}
    \/ Len(s) = 2 /\ s[1] \in {"1", "2"} /\ s[2] \in DecimalChars
    \/ Len(s) = 2 /\ s[1] \in {"0", " "} /\ s[2] \in DecimalChars \ {"0"}
    \/ Len(s) = 1 /\ s[1] \in DecimalChars \ {"0"}

FieldValue(s) == DecimalValue(SelectSeq(s, LAMBDA c : c \in DecimalChars))

\* The fields of a text that matches \d\d\d\d-%m-%d as a whole
DateFields(s) ==
    LET n == Len(s)
        mlen == IF n >= 8 /\ s[8] = "-" THEN 2 ELSE 1
        ok == /\ n >= 6 + mlen
              /\ \A i \in 1..4 : s[i] \in DecimalChars
              /\ s[5] = "-"
              /\ s[6 + mlen] = "-"
              /\ MonthField(SubSeq(s, 6, 5 + mlen))
              /\ DayField(SubSeq(s, 7 + mlen, n))
    IN  IF ok
        THEN [ok |-> TRUE,
              year |-> DecimalValue(SubSeq(s, 1, 4)),
              month |-> FieldValue(SubSeq(s, 6, 5 + mlen)),
              day |-> FieldValue(SubSeq(s, 7 + mlen, n))]
        ELSE [ok |-> FALSE, year |-> 0, month |-> 0, day |-> 0]

\* datetime.strptime(v, "%Y-%m-%d").date(): the whole text must match
\* \d\d\d\d-%m-%d and name a date that exists (years start at 1); a value
\* that is not a string is a TypeError.
strptime(v) ==
    IF ~IsStr(v) THEN Raised("TypeError")
    ELSE With(DateFields(v.s), LAMBDA f :
            IF f.ok /\ f.year >= 1 /\ f.day <= days_in_month(f.year, f.month)
            THEN [exc |-> "none",
                  date |-> [year |-> f.year, month |-> f.month, day |-> f.day]]
            ELSE Raised("ValueError"))

\* is_valid_date(date_str): only ValueError is caught
is_valid_date(v) ==
    With(strptime(v), LAMBDA r :
        IF r.exc = "none" THEN [exc |-> "none", val |-> TRUE]
        ELSE IF r.exc = "ValueError" THEN [exc |-> "none", val |-> FALSE]
        ELSE [exc |-> r.exc, val |-> FALSE])

----------------------------------------------------------------------------
(* draw_events_for_date *)

\* A date object compared with <=
DateLeq(a, b) == toordinal(a) <= toordinal(b)

Outcome(e, f) == [exc |-> e, fires |-> f]

\* CadenceFires with the weekly stride taken in days instead of weeks
CadenceFires_DaysNotWeeks(event, start, cur) ==
    LET tok == event.recurrence.s
        n == int(SubSeq(tok, 1, Len(tok) - 1)).val
        recurrence_unit == tok[Len(tok)]
        month_diff == (cur.year - start.year) * 12 + (cur.month - start.month)
    IN  IF n = 0 THEN Outcome("ZeroDivisionError", FALSE)
        ELSE IF recurrence_unit = "w"
             THEN Outcome("none", (toordinal(cur) - toordinal(start)) % n = 0)
        ELSE IF recurrence_unit = "m"
             THEN Outcome("none", cur.day = start.day /\ month_diff % n = 0)
        ELSE Outcome("none", /\ cur.month = start.month
                             /\ cur.day = start.day
                             /\ (cur.year - start.year) % n = 0)

\* Lines 208-227: the cadence test of one recurring event whose window
\* holds the current date.  start and cur are date objects.
CadenceFires(event, start, cur) ==
    IF "recurrence" \notin event.keys THEN Outcome("KeyError", FALSE)
    ELSE IF ~IsStr(event.recurrence) THEN Outcome("TypeError", FALSE)
    ELSE With(event.recurrence.s, LAMBDA tok :
         With(int(SubSeq(tok, 1, Len(tok) - 1)), LAMBDA recurrence_num :
            LET recurrence_unit == tok[Len(tok)]
                n == recurrence_num.val
                difference == toordinal(cur) - toordinal(start)
                month_diff == (cur.year - start.year) * 12 + (cur.month - start.month)
                year_diff == cur.year - start.year
            IN  IF recurrence_num.exc # "none" THEN Outcome(recurrence_num.exc, FALSE)
                ELSE IF recurrence_unit = "w" THEN
                    IF n * 7 = 0 THEN Outcome("ZeroDivisionError", FALSE)
                    ELSE Outcome("none", difference % (n * 7) = 0)
                ELSE IF recurrence_unit = "m" THEN
                    IF cur.day = start.day THEN
                        IF n = 0 THEN Outcome("ZeroDivisionError", FALSE)
                        ELSE Outcome("none", month_diff % n = 0)
                    ELSE Outcome("none", FALSE)
                ELSE IF recurrence_unit = "y" THEN
                    IF cur.month = start.month /\ cur.day = start.day THEN
                        IF n = 0 THEN Outcome("ZeroDivisionError", FALSE)
                        ELSE Outcome("none", year_diff % n = 0)
                    ELSE Outcome("none", FALSE)
                ELSE Outcome("none", FALSE)))

\* InWindow without the end_date bound
InWindow_NoEnd(start, end_date_obj, cur) == DateLeq(start, cur)

\* Line 207: the window test
InWindow(start, end_date_obj, cur) ==
    DateLeq(start, cur) /\ (end_date_obj.exc = "absent" \/ DateLeq(cur, end_date_obj.date))

\* Lines 196-227: the body of the loop over recurring_events for one event
EventFires(event, ds) ==
    IF ~event.isdict THEN Outcome("TypeError", FALSE)
    ELSE IF "start_date" \notin event.keys THEN Outcome("KeyError", FALSE)
    ELSE With(strptime(event.start_date), LAMBDA start_date_obj :
         IF start_date_obj.exc # "none" THEN Outcome(start_date_obj.exc, FALSE)
         ELSE
         With(IF "end_date" \in event.keys THEN strptime(event.end_date)
              ELSE [exc |-> "absent", date |-> NoDate], LAMBDA end_date_obj :
         IF end_date_obj.exc \notin {"none", "absent"} THEN Outcome(end_date_obj.exc, FALSE)
         ELSE
         With(strptime(Str(ds)), LAMBDA current_date_obj :
         IF current_date_obj.exc # "none" THEN Outcome(current_date_obj.exc, FALSE)
         ELSE IF InWindow(start_date_obj.date, end_date_obj, current_date_obj.date)
              THEN CadenceFires(event, start_date_obj.date, current_date_obj.date)
              ELSE Outcome("none", FALSE))))

Drawn(e, strings) == [exc |-> e, event_strings |-> strings]

\* Lines 189-191: for event in events['single_events']
RECURSIVE SingleLoop(_, _, _)
SingleLoop(evs, ds, acc) ==
    IF evs = <<>> THEN Drawn("none", acc)
    ELSE With(Head(evs), LAMBDA event :
            IF ~event.isdict THEN Drawn("TypeError", acc)
            ELSE IF "date" \notin event.keys THEN Drawn("KeyError", acc)
            ELSE IF event.date = Str(ds)
                 THEN IF "description" \notin event.keys THEN Drawn("KeyError", acc)
                      ELSE SingleLoop(Tail(evs), ds, Append(acc, event.description))
                 ELSE SingleLoop(Tail(evs), ds, acc))

\* Lines 195-227: for event in events['recurring_events']
RECURSIVE RecurringLoop(_, _, _)
RecurringLoop(evs, ds, acc) ==
    IF evs = <<>> THEN Drawn("none", acc)
    ELSE With(Head(evs), LAMBDA event :
         With(EventFires(event, ds), LAMBDA f :
            IF f.exc # "none" THEN Drawn(f.exc, acc)
            ELSE IF f.fires
                 THEN IF "description" \notin event.keys THEN Drawn("KeyError", acc)
                      ELSE RecurringLoop(Tail(evs), ds, Append(acc, event.description))
                 ELSE RecurringLoop(Tail(evs), ds, acc)))

\* draw_events_for_date collecting the recurring events before the single ones
draw_events_for_date_RecurringFirst(evts, ds) ==
    With(IF "recurring_events" \in evts.keys
         THEN RecurringLoop(evts.recurring_events, ds, <<>>)
         ELSE Drawn("none", <<>>), LAMBDA recurrings :
        IF recurrings.exc # "none" THEN Drawn(recurrings.exc, <<>>)
        ELSE IF "single_events" \in evts.keys
             THEN SingleLoop(evts.single_events, ds, recurrings.event_strings)
             ELSE recurrings)

\* draw_events_for_date(canvas, events, date_str, ...): the strings drawn in
\* the cell, bottom first; nothing is drawn when an exception ends the call.
draw_events_for_date(evts, ds) ==
    With(IF "single_events" \in evts.keys
         THEN SingleLoop(evts.single_events, ds, <<>>)
         ELSE Drawn("none", <<>>), LAMBDA singles :
        IF singles.exc # "none" THEN Drawn(singles.exc, <<>>)
        ELSE With(IF "recurring_events" \in evts.keys
                  THEN RecurringLoop(evts.recurring_events, ds, singles.event_strings)
                  ELSE singles, LAMBDA all :
                IF all.exc # "none" THEN Drawn(all.exc, <<>>) ELSE all))

----------------------------------------------------------------------------
(* Configuration values *)

\* config['events']: a mapping that may hold single_events and
\* recurring_events, each a list or some other value
Events(keys, single_islist, singles, recurring_islist, recurrings) ==
    [keys |-> keys,
     single_islist |-> single_islist, single_events |-> singles,
     recurring_islist |-> recurring_islist, recurring_events |-> recurrings]

NoEvents == Events({}, TRUE, <<>>, TRUE, <<>>)

\* The loaded configuration: a mapping, None (an empty file) or a list
Config(t, keys, months_islist, months, events_isdict, evts) ==
    [t |-> t, keys |-> keys,
     months_islist |-> months_islist, months_to_print |-> months,
     events_isdict |-> events_isdict, events |-> evts]

NoConfig == Config("none", {}, TRUE, <<>>, TRUE, NoEvents)

\* An entry of single_events
SingleEvent(keys, date, description) ==
    [isdict |-> TRUE, keys |-> keys, date |-> date, description |-> description]

\* An entry of recurring_events
RecurringEvent(keys, recurrence, start_date, end_date, description) ==
    [isdict |-> TRUE, keys |-> keys, recurrence |-> recurrence,
     start_date |-> start_date, end_date |-> end_date, description |-> description]

RequiredRecurring == {"recurrence", "start_date", "description"}

Text(y, m, d) == Str(FormatDate(y, m, d))

SeqsUpTo(S, n) == UNION {[1..k -> S] : k \in 0..n}

----------------------------------------------------------------------------
(* validate_config *)

Err(msg, arg) == [msg |-> msg, arg |-> arg]

NoArg == Str(<<>>)

Checked(e, errs) == [exc |-> e, errors |-> errs]

\* Line 73: the recurrence value passes the format check
RecurrenceOk(v) ==
    /\ IsStr(v)
    /\ Len(v.s) >= 1
    /\ v.s[Len(v.s)] \in {"w", "m", "y"}
    /\ isdigit(SubSeq(v.s, 1, Len(v.s) - 1))

\* Lines 35-37: for month_str in config['months_to_print']
RECURSIVE ValidateMonths(_, _)
ValidateMonths(months, errs) ==
    IF months = <<>> THEN Checked("none", errs)
    ELSE With(Head(months), LAMBDA month_str :
            IF ~IsStr(month_str) THEN Checked("TypeError", errs)
            ELSE IF is_valid_date(Str(month_str.s \o <<"-", "0", "1">>)).val
                 THEN ValidateMonths(Tail(months), errs)
                 ELSE ValidateMonths(Tail(months),
                                     Append(errs, Err("Invalid month format", month_str))))

\* Lines 56-59: the field checks of a single event that has its keys
SingleFieldErrors(event, dateOk) ==
    (IF dateOk.val THEN <<>> ELSE <<Err("Invalid date format", event.date)>>)
    \o (IF IsStr(event.description) THEN <<>>
        ELSE <<Err("Description must be a string", event.description)>>)

\* Lines 49-59: for event in config['events']['single_events']
RECURSIVE ValidateSingles(_, _)
ValidateSingles(evs, errs) ==
    IF evs = <<>> THEN Checked("none", errs)
    ELSE With(Head(evs), LAMBDA event :
            IF ~event.isdict
            THEN ValidateSingles(Tail(evs),
                    Append(errs, Err("Each entry in 'single_events' must be a dictionary.", NoArg)))
            ELSE IF ~({"date", "description"} \subseteq event.keys)
            THEN ValidateSingles(Tail(evs),
                    Append(errs, Err("Each single event must have 'date' and 'description' keys.", NoArg)))
            ELSE With(is_valid_date(event.date), LAMBDA dateOk :
                    IF dateOk.exc # "none" THEN Checked(dateOk.exc, errs)
                    ELSE ValidateSingles(Tail(evs), errs \o SingleFieldErrors(event, dateOk))))

\* Lines 73-80: the field checks of a recurring event that has its keys
RecurringFieldErrors(event, startOk, endOk) ==
    (IF RecurrenceOk(event.recurrence) THEN <<>>
     ELSE <<Err("Invalid recurrence format", event.recurrence)>>)
    \o (IF startOk.val THEN <<>> ELSE <<Err("Invalid start_date format", event.start_date)>>)
    \o (IF endOk.val THEN <<>> ELSE <<Err("Invalid end_date format", event.end_date)>>)
    \o (IF IsStr(event.description) THEN <<>>
        ELSE <<Err("Description must be a string", event.description)>>)

\* Lines 66-80: for event in config['events']['recurring_events']
RECURSIVE ValidateRecurrings(_, _)
ValidateRecurrings(evs, errs) ==
    IF evs = <<>> THEN Checked("none", errs)
    ELSE With(Head(evs), LAMBDA event :
            IF ~event.isdict
            THEN ValidateRecurrings(Tail(evs),
                    Append(errs, Err("Each entry in 'recurring_events' must be a dictionary.", NoArg)))
            ELSE IF ~({"recurrence", "start_date", "description"} \subseteq event.keys)
            THEN ValidateRecurrings(Tail(evs),
                    Append(errs, Err("Each recurring event must have 'recurrence', 'start_date', and 'description' keys.", NoArg)))
            ELSE With(is_valid_date(event.start_date), LAMBDA startOk :
                 IF startOk.exc # "none" THEN Checked(startOk.exc, errs)
                 ELSE
                 With(IF "end_date" \in event.keys THEN is_valid_date(event.end_date)
                      ELSE [exc |-> "none", val |-> TRUE], LAMBDA endOk :
                 IF endOk.exc # "none" THEN Checked(endOk.exc, errs)
                 ELSE ValidateRecurrings(Tail(evs),
                                         errs \o RecurringFieldErrors(event, startOk, endOk)))))

\* Lines 40-80: the checks of config['events']
ValidateEvents(c, errs) ==
    IF ~c.events_isdict
    THEN Checked("none", Append(errs, Err("'events' must be a dictionary.", NoArg)))
    ELSE
    With(IF "single_events" \notin c.events.keys THEN Checked("none", errs)
         ELSE IF ~c.events.single_islist
              THEN Checked("none", Append(errs, Err("'single_events' must be a list.", NoArg)))
              ELSE ValidateSingles(c.events.single_events, errs), LAMBDA singles :
        IF singles.exc # "none" THEN singles
        ELSE IF "recurring_events" \notin c.events.keys THEN singles
        ELSE IF ~c.events.recurring_islist
             THEN Checked("none", Append(singles.errors,
                                         Err("'recurring_events' must be a list.", NoArg)))
             ELSE ValidateRecurrings(c.events.recurring_events, singles.errors))

\* Lines 24-28: the required top-level keys
MissingKeys(c) ==
    (IF c.t = "dict" /\ "months_to_print" \in c.keys THEN <<>>
     ELSE <<Err("Missing 'months_to_print' key in config file.", NoArg)>>)
    \o (IF c.t = "dict" /\ "events" \in c.keys THEN <<>>
        ELSE <<Err("Missing 'events' key in config file.", NoArg)>>)

\* validate_config(config): the list of errors, or the exception raised.
\* `key in config` is a TypeError on None and is false on a list.
validate_config(c) ==
    IF c.t = "none" THEN Checked("TypeError", <<>>)
    ELSE
    With(IF ~(c.t = "dict" /\ "months_to_print" \in c.keys) THEN Checked("none", MissingKeys(c))
         ELSE IF ~c.months_islist
              THEN Checked("none", Append(MissingKeys(c),
                                          Err("'months_to_print' must be a list.", NoArg)))
              ELSE ValidateMonths(c.months_to_print, MissingKeys(c)), LAMBDA months :
        IF months.exc # "none" THEN Checked(months.exc, <<>>)
        ELSE IF ~(c.t = "dict" /\ "events" \in c.keys) THEN months
        ELSE With(ValidateEvents(c, months.errors), LAMBDA all :
                IF all.exc # "none" THEN Checked(all.exc, <<>>) ELSE all))

----------------------------------------------------------------------------
(* calendar.Calendar(firstweekday=6).monthdayscalendar *)

firstweekday == 6

Zeros(n) == [i \in 1..n |-> 0]

\* Calendar.itermonthdays(year, month): zeros for the days outside the month
itermonthdays(y, m) ==
    LET day1 == weekday(y, m, 1)
        ndays == days_in_month(y, m)
        days_before == (day1 - firstweekday) % 7
        days_after == (firstweekday - day1 - ndays) % 7
    IN  Zeros(days_before) \o [i \in 1..ndays |-> i] \o Zeros(days_after)

\* days[i:i+7] for i in range(0, len(days), 7)
RECURSIVE Chunks(_)
Chunks(days) ==
    IF Len(days) = 0 THEN <<>>
    ELSE IF Len(days) <= 7 THEN <<days>>
    ELSE <<SubSeq(days, 1, 7)>> \o Chunks(SubSeq(days, 8, Len(days)))

monthdayscalendar(y, m) == Chunks(itermonthdays(y, m))

----------------------------------------------------------------------------
(* create_calendar_page *)

\* Lines 116-153: the page set-up, up to the grid of the month
CreateCalendarPage ==
    /\ pc = "page"
    /\ cal' = monthdayscalendar(year, month)
    /\ wk' = 1
    /\ col' = 1
    /\ pc' = "walk"
    /\ UNCHANGED <<config, exc, errors, month_idx, year, month, day, events,
                   date_str, event_strings, log, pages, saved>>

\* The cell after (wk, col) in row-major order; past the last week the
\* function returns.
Advance ==
    /\ col' = IF col < Len(cal[wk]) THEN col + 1 ELSE 1
    /\ wk' = IF col < Len(cal[wk]) THEN wk ELSE wk + 1
    /\ pc' = IF col >= Len(cal[wk]) /\ wk >= Len(cal) THEN "returned" ELSE "walk"

\* IsDayCell taking day 1 for padding as well
IsDayCell_AfterFirst(d) == d > 1

\* Line 161: if day != 0
IsDayCell(d) == d # 0

\* Lines 156-167 for a padding cell: the rectangle alone
DrawPaddingCell ==
    /\ pc = "walk"
    /\ ~IsDayCell(cal[wk][col])
    /\ Advance
    /\ UNCHANGED <<config, exc, errors, month_idx, year, month, day, cal, events,
                   date_str, event_strings, log, pages, saved>>

\* Lines 156-167 for a day of the month: the rectangle, the day number and
\* the events of the date
DrawDayCell ==
    /\ pc = "walk"
    /\ IsDayCell(cal[wk][col])
    /\ day' = cal[wk][col]
    /\ date_str' = FormatDate(year, month, cal[wk][col])
    /\ \E r \in {draw_events_for_date(events, FormatDate(year, month, cal[wk][col]))} :
           IF r.exc # "none"
           THEN /\ exc' = r.exc
                /\ pc' = "raised"
                /\ UNCHANGED <<wk, col, event_strings, log>>
           ELSE /\ event_strings' = r.event_strings
                /\ log' = Append(log, [year |-> year, month |-> month,
                                       day |-> cal[wk][col],
                                       event_strings |-> r.event_strings])
                /\ Advance
                /\ exc' = exc
    /\ UNCHANGED <<config, errors, month_idx, year, month, cal, events, pages, saved>>

----------------------------------------------------------------------------
(* main *)

\* str.split('-')
RECURSIVE Split(_, _)
Split(s, cur) ==
    IF s = <<>> THEN <<cur>>
    ELSE IF Head(s) = "-" THEN <<cur>> \o Split(Tail(s), <<>>)
    ELSE Split(Tail(s), Append(cur, Head(s)))

\* year, month = map(int, month_str.split('-'))
YearMonth(month_str) ==
    IF ~IsStr(month_str) THEN [exc |-> "AttributeError", year |-> 0, month |-> 0]
    ELSE With(Split(month_str.s, <<>>), LAMBDA parts :
            IF Len(parts) # 2 \/ int(parts[1]).exc # "none" \/ int(parts[2]).exc # "none"
            THEN [exc |-> "ValueError", year |-> 0, month |-> 0]
            ELSE [exc |-> "none", year |-> int(parts[1]).val, month |-> int(parts[2]).val])

\* Lines 269-274: validation; any error ends the run before the canvas exists
Validate ==
    /\ pc = "validate"
    /\ \E r \in {validate_config(config)} :
           /\ exc' = r.exc
           /\ errors' = r.errors
           /\ pc' = IF r.exc # "none" THEN "validate_raised"
                    ELSE IF r.errors # <<>> THEN "aborted" ELSE "loop"
    /\ month_idx' = 1
    /\ UNCHANGED <<config, year, month, day, cal, wk, col, events, date_str,
                   event_strings, log, pages, saved>>

\* Lines 279-281: the next entry of months_to_print, up to the call of
\* create_calendar_page
NextMonth ==
    /\ pc = "loop"
    /\ month_idx <= Len(config.months_to_print)
    /\ \E ym \in {YearMonth(config.months_to_print[month_idx])} :
           /\ exc' = ym.exc
           /\ year' = ym.year
           /\ month' = ym.month
           /\ pc' = IF ym.exc # "none" THEN "raised" ELSE "page"
    /\ events' = config.events
    /\ UNCHANGED <<config, errors, month_idx, day, cal, wk, col, date_str,
                   event_strings, log, pages, saved>>

\* Line 282: c.showPage()
ShowPage ==
    /\ pc = "returned"
    /\ pages' = Append(pages, config.months_to_print[month_idx])
    /\ month_idx' = month_idx + 1
    /\ pc' = "loop"
    /\ UNCHANGED <<config, exc, errors, year, month, day, cal, wk, col, events,
                   date_str, event_strings, log, saved>>

\* Lines 284-285: c.save()
Save ==
    /\ pc = "loop"
    /\ month_idx > Len(config.months_to_print)
    /\ saved' = TRUE
    /\ pc' = "done"
    /\ UNCHANGED <<config, exc, errors, month_idx, year, month, day, cal, wk, col,
                   events, date_str, event_strings, log, pages>>

----------------------------------------------------------------------------
(* The recurrence test applied to one rule and one date *)

MaxCount == 3
YearSpan == 2

FiresYears == 2024..(2024 + YearSpan)

FiresMonths == {1, 2, 3, 4, 12}

FiresTokens == {Str(str(n) \o <<u>>) : n \in 0..MaxCount, u \in {"w", "m", "y"}}

FiresStarts ==
    {Text(2024, 1, 31), Text(2024, 2, 29), Text(2025, 1, 6),
     Str(<<"2", "0", "2", "5", "-", "1", "-", "1", "5">>)}

FiresEnds == {NotStr, Text(2025, 3, 31), Text(2024, 12, 31)}

FiresRules ==
    {RecurringEvent(RequiredRecurring \cup (IF e = NotStr THEN {} ELSE {"end_date"}),
                    tok, s, e, Str(<<"R">>)) :
        tok \in FiresTokens, s \in FiresStarts, e \in FiresEnds}

InitFires ==
    /\ config = NoConfig
    /\ pc = "draw"
    /\ exc = "none"
    /\ errors = <<>>
    /\ month_idx = 0
    /\ year \in FiresYears
    /\ month \in FiresMonths
    /\ day \in 1..days_in_month(year, month)
    /\ cal = <<>>
    /\ wk = 0
    /\ col = 0
    /\ \E r \in FiresRules : events = Events({"recurring_events"}, TRUE, <<>>, TRUE, <<r>>)
    /\ date_str = FormatDate(year, month, day)
    /\ event_strings = <<>>
    /\ log = <<>>
    /\ pages = <<>>
    /\ saved = FALSE

\* One call draw_events_for_date(canvas, events, date_str, ...)
DrawEventsForDate ==
    /\ pc = "draw"
    /\ \E r \in {draw_events_for_date(events, date_str)} :
           /\ exc' = r.exc
           /\ event_strings' = r.event_strings
           /\ pc' = IF r.exc = "none" THEN "drawn" ELSE "raised"
    /\ UNCHANGED <<config, errors, month_idx, year, month, day, cal, wk, col,
                   events, date_str, log, pages, saved>>

NextDraw == DrawEventsForDate

SpecFires == InitFires /\ [][NextDraw]_vars

----------------------------------------------------------------------------
(* Calendar arithmetic as the specification words it, for the claims *)

GregorianLeap(y) == (y % 4 = 0 /\ y % 100 # 0) \/ y % 400 = 0

MonthLength(y, m) ==
    IF m = 2 /\ GregorianLeap(y) THEN 29
    ELSE <<31, 28, 31, 30, 31, 30, 31, 31, 30, 31, 30, 31>>[m]

RECURSIVE DaysToYear(_)
DaysToYear(y) ==
    IF y <= 2000 THEN 0
    ELSE DaysToYear(y - 1) + (IF GregorianLeap(y - 1) THEN 366 ELSE 365)

RECURSIVE DaysToMonth(_, _)
DaysToMonth(y, m) == IF m <= 1 THEN 0 ELSE DaysToMonth(y, m - 1) + MonthLength(y, m - 1)

\* Days elapsed since 2000-01-01
DayNumber(dt) == DaysToYear(dt.year) + DaysToMonth(dt.year, dt.month) + dt.day - 1

Before(a, b) ==
    \/ a.year < b.year
    \/ a.year = b.year /\ a.month < b.month
    \/ a.year = b.year /\ a.month = b.month /\ a.day < b.day

\* A rule's fields as the specification names them
RStart(r) == strptime(r.start_date).date
RHasEnd(r) == "end_date" \in r.keys
REnd(r) == strptime(r.end_date).date
RCount(r) == DecimalValue(SubSeq(r.recurrence.s, 1, Len(r.recurrence.s) - 1))
RUnit(r) == r.recurrence.s[Len(r.recurrence.s)]

Within(r, d) == ~Before(d, RStart(r)) /\ (RHasEnd(r) => ~Before(REnd(r), d))

Cadence(r, d) ==
    \/ RUnit(r) = "w" /\ (DayNumber(d) - DayNumber(RStart(r))) % (RCount(r) * 7) = 0
    \/ /\ RUnit(r) = "m"
       /\ d.day = RStart(r).day
       /\ ((d.year - RStart(r).year) * 12 + (d.month - RStart(r).month)) % RCount(r) = 0
    \/ /\ RUnit(r) = "y"
       /\ d.month = RStart(r).month
       /\ d.day = RStart(r).day
       /\ (d.year - RStart(r).year) % RCount(r) = 0

\* The rule and the date of the call
TheRule == events.recurring_events[1]
TheDate == [year |-> year, month |-> month, day |-> day]
RuleStart == RStart(TheRule)
RuleHasEnd == RHasEnd(TheRule)
RuleEnd == REnd(TheRule)
RuleCount == RCount(TheRule)
RuleUnit == RUnit(TheRule)
RuleAttached == \E i \in 1..Len(event_strings) : event_strings[i] = TheRule.description
Returned == pc \in {"drawn", "raised"}

CadenceMatches == Cadence(TheRule, TheDate)

\* C1: for a recurring event with count >= 1 and unit w, m or y, and a date
\* with start_date <= date (and date <= end_date when end_date is present),
\* draw_events_for_date attaches the description to the date if and only if
\* the cadence of the unit matches: the elapsed days are a multiple of
\* count*7 (w); the day of the month is that of start_date and the elapsed
\* months are a multiple of count (m); month and day are those of start_date
\* and the elapsed years are a multiple of count (y).
C1_CadenceIff ==
    (/\ Returned
     /\ RuleCount >= 1
     /\ ~Before(TheDate, RuleStart)
     /\ (RuleHasEnd => ~Before(RuleEnd, TheDate)))
    => (exc = "none" /\ (RuleAttached <=> CadenceMatches))

C1_Witness ==
    /\ pc = "drawn"
    /\ RuleCount = 3
    /\ RuleUnit = "m"
    /\ RuleAttached
    /\ TheDate.year > RuleStart.year
    /\ TheDate.month # RuleStart.month

\* C2: a recurring event's description is never attached to a date earlier
\* than its start_date nor, when end_date is present, to a date later than
\* end_date; a rule whose end_date is earlier than its start_date is
\* attached to no date.
C2_NeverOutsideWindow ==
    Returned =>
        /\ Before(TheDate, RuleStart) => ~RuleAttached
        /\ (RuleHasEnd /\ Before(RuleEnd, TheDate)) => ~RuleAttached
        /\ (RuleHasEnd /\ Before(RuleEnd, RuleStart)) => ~RuleAttached

C2_Witness ==
    /\ pc = "drawn"
    /\ RuleHasEnd
    /\ Before(RuleEnd, RuleStart)
    /\ TheDate = RuleStart
    /\ RuleCount = 1
    /\ ~RuleAttached

----------------------------------------------------------------------------
(* One page: create_calendar_page(canvas, year, month, events) *)

GridSpan == 200

GridYears == 1900..(1900 + GridSpan)

Valentine == SingleEvent({"date", "description"}, Text(2025, 2, 14), Str(<<"Valentine's Day">>))

Sync == RecurringEvent(RequiredRecurring, Str(<<"1", "w">>), Text(2025, 2, 3), NotStr,
                       Str(<<"Sync">>))

EndToEndEvents ==
    Events({"single_events", "recurring_events"}, TRUE, <<Valentine>>, TRUE, <<Sync>>)

InitGrid ==
    /\ config = NoConfig
    /\ pc = "page"
    /\ exc = "none"
    /\ errors = <<>>
    /\ month_idx = 0
    /\ year \in GridYears
    /\ month \in 1..12
    /\ day = 0
    /\ cal = <<>>
    /\ wk = 0
    /\ col = 0
    /\ events = EndToEndEvents
    /\ date_str = <<>>
    /\ event_strings = <<>>
    /\ log = <<>>
    /\ pages = <<>>
    /\ saved = FALSE

NextGrid == CreateCalendarPage \/ DrawPaddingCell \/ DrawDayCell

SpecGrid == InitGrid /\ [][NextGrid]_vars

RECURSIVE Flatten(_)
Flatten(weeks) == IF weeks = <<>> THEN <<>> ELSE Head(weeks) \o Flatten(Tail(weeks))

UpTo(n) == [i \in 1..n |-> i]

ActiveCells == SelectSeq(Flatten(cal), LAMBDA d : d # 0)

LogDays == [i \in 1..Len(log) |-> log[i].day]

\* C4: for every (year, month), the grid walked by create_calendar_page has
\* weeks of exactly 7 cells, its non-padding cells in row-major order are
\* exactly the days 1, 2, ..., last day of the month (Gregorian), each once
\* and increasing, and events are resolved for exactly those days: while the
\* page is walked the days resolved so far are 1..k, and when the page is
\* complete they are 1..last day.
C4_GridCompleteness ==
    pc \in {"walk", "returned"} =>
        /\ \A w \in 1..Len(cal) : Len(cal[w]) = 7
        /\ ActiveCells = UpTo(MonthLength(year, month))
        /\ LogDays = UpTo(Len(log))
        /\ Len(log) <= MonthLength(year, month)
        /\ \A i \in 1..Len(log) : log[i].year = year /\ log[i].month = month
        /\ pc = "returned" => Len(log) = MonthLength(year, month)

C4_Witness ==
    /\ pc = "returned"
    /\ year = 2024
    /\ month = 2
    /\ Len(cal) = 5
    /\ cal[1][5] = 1
    /\ LogDays = UpTo(29)

----------------------------------------------------------------------------
(* The events of one date: draw_events_for_date on whole event sets *)

MaxEvents == 2

ResolveDays == {3, 10, 14, 17}

ResolveSingles ==
    {Valentine,
     SingleEvent({"date", "description"}, Text(2025, 2, 14), Str(<<"Sync">>)),
     SingleEvent({"date", "description"}, Text(2025, 2, 3), Str(<<"Dentist">>)),
     SingleEvent({"date", "description"},
                 Str(<<"2", "0", "2", "5", "-", "2", "-", "1", "4">>), Str(<<"Unpadded">>))}

ResolveRecurrings ==
    {Sync,
     RecurringEvent(RequiredRecurring \cup {"end_date"}, Str(<<"1", "m">>),
                    Text(2025, 1, 14), Text(2025, 2, 14), Str(<<"Rent">>)),
     RecurringEvent(RequiredRecurring, Str(<<"1", "y">>), Text(2024, 2, 14), NotStr,
                    Str(<<"Anniversary">>)),
     RecurringEvent(RequiredRecurring, Str(<<"0", "w">>), Text(2025, 2, 10), NotStr,
                    Str(<<"Zero">>))}

\* A mapping with a list under each key it has
EventSets(SL, RL) ==
    {Events(k, TRUE, IF "single_events" \in k THEN sl ELSE <<>>,
               TRUE, IF "recurring_events" \in k THEN rl ELSE <<>>) :
        k \in SUBSET {"single_events", "recurring_events"}, sl \in SL, rl \in RL}

InitResolve ==
    /\ config = NoConfig
    /\ pc = "draw"
    /\ exc = "none"
    /\ errors = <<>>
    /\ month_idx = 0
    /\ year = 2025
    /\ month = 2
    /\ day \in ResolveDays
    /\ cal = <<>>
    /\ wk = 0
    /\ col = 0
    /\ events \in EventSets(SeqsUpTo(ResolveSingles, MaxEvents),
                            SeqsUpTo(ResolveRecurrings, MaxEvents))
    /\ date_str = FormatDate(year, month, day)
    /\ event_strings = <<>>
    /\ log = <<>>
    /\ pages = <<>>
    /\ saved = FALSE

SpecResolve == InitResolve /\ [][NextDraw]_vars

\* YYYY-MM-DD
IsoText(d) ==
    <<DigitChar(d.year \div 1000), DigitChar((d.year \div 100) % 10),
      DigitChar((d.year \div 10) % 10), DigitChar(d.year % 10), "-",
      DigitChar(d.month \div 10), DigitChar(d.month % 10), "-",
      DigitChar(d.day \div 10), DigitChar(d.day % 10)>>

SinglesOf(evts) == IF "single_events" \in evts.keys THEN evts.single_events ELSE <<>>
RecurringsOf(evts) == IF "recurring_events" \in evts.keys THEN evts.recurring_events ELSE <<>>

Descriptions(evs) == [i \in 1..Len(evs) |-> evs[i].description]

\* A single event matches a date when its date is the date's YYYY-MM-DD text
SingleMatches(e, d) == e.date = Str(IsoText(d))

\* A recurring event fires on a date inside its window that its cadence hits
FiresOn(r, d) == RCount(r) >= 1 /\ Within(r, d) /\ Cadence(r, d)

----------------------------------------------------------------------------
(* Configurations *)

\* What a key of a mapping may hold: nothing (the key is absent), a value
\* that is not a list, or one of the lists L
ListPart(L) ==
    {[has |-> FALSE, islist |-> TRUE, v |-> <<>>], [has |-> TRUE, islist |-> FALSE, v |-> <<>>]}
    \cup {[has |-> TRUE, islist |-> TRUE, v |-> l] : l \in L}

KeyIf(b, k) == IF b THEN {k} ELSE {}

EventsParts(SL, RL) ==
    {[has |-> FALSE, isdict |-> TRUE, v |-> NoEvents], [has |-> TRUE, isdict |-> FALSE, v |-> NoEvents]}
    \cup {[has |-> TRUE, isdict |-> TRUE,
           v |-> Events(KeyIf(sp.has, "single_events") \cup KeyIf(rp.has, "recurring_events"),
                        sp.islist, sp.v, rp.islist, rp.v)] :
            sp \in ListPart(SL), rp \in ListPart(RL)}

\* None, a list, and the mappings built from the given lists
Configs(ML, SL, RL) ==
    {NoConfig, Config("list", {}, TRUE, <<>>, TRUE, NoEvents)}
    \cup {Config("dict", KeyIf(mp.has, "months_to_print") \cup KeyIf(ep.has, "events"),
                 mp.islist, mp.v, ep.isdict, ep.v) :
            mp \in ListPart(ML), ep \in EventsParts(SL, RL)}

NotADict == [isdict |-> FALSE, keys |-> {}, date |-> NotStr, description |-> NotStr]

NotARule ==
    [isdict |-> FALSE, keys |-> {}, recurrence |-> NotStr, start_date |-> NotStr,
     end_date |-> NotStr, description |-> NotStr]

----------------------------------------------------------------------------
(* main *)

MaxPages == 2
MaxPageEvents == 1

MainMonths ==
    {Str(<<"2", "0", "2", "5", "-", "0", "2">>),
     Str(<<"2", "0", "2", "5", "-", "3">>),
     Str(<<"2", "0", "2", "5", "-", "1", "3">>)}

MainSingles ==
    {Valentine,
     SingleEvent({"date", "description"},
                 Str(<<"2", "0", "2", "5", "-", "2", "-", "3">>), Str(<<"Dentist">>)),
     SingleEvent({"date", "description"}, Str(FormatDate(2025, 2, 30)), Str(<<"Never">>))}

MainRecurrings ==
    {Sync,
     RecurringEvent(RequiredRecurring, Str(<<"0", "w">>), Text(2025, 2, 10), NotStr,
                    Str(<<"Zero">>)),
     RecurringEvent(RequiredRecurring, Str(<<"sup2", "m">>), Text(2025, 2, 10), NotStr,
                    Str(<<"Squared">>)),
     RecurringEvent(RequiredRecurring, Str(<<"3", "x">>), Text(2025, 2, 3), NotStr,
                    Str(<<"Odd">>))}

Init ==
    /\ config \in Configs(SeqsUpTo(MainMonths, MaxPages),
                          SeqsUpTo(MainSingles, MaxPageEvents),
                          SeqsUpTo(MainRecurrings, MaxPageEvents))
    /\ pc = "validate"
    /\ exc = "none"
    /\ errors = <<>>
    /\ month_idx = 0
    /\ year = 0
    /\ month = 0
    /\ day = 0
    /\ cal = <<>>
    /\ wk = 0
    /\ col = 0
    /\ events = NoEvents
    /\ date_str = <<>>
    /\ event_strings = <<>>
    /\ log = <<>>
    /\ pages = <<>>
    /\ saved = FALSE

Next ==
    \/ Validate
    \/ NextMonth
    \/ CreateCalendarPage
    \/ DrawPaddingCell
    \/ DrawDayCell
    \/ ShowPage
    \/ Save

Spec == Init /\ [][Next]_vars

\* validate_config returned, and returned no error
Accepted == pc \notin {"validate", "validate_raised", "aborted"}

\* main has ended
Ended == pc \in {"aborted", "validate_raised", "raised", "done"}

IsPrefix(a, b) == Len(a) <= Len(b) /\ \A i \in 1..Len(a) : a[i] = b[i]

\* C5: every single event of an accepted configuration fires on exactly the
\* calendar date its date field denotes: once the months are rendered, its
\* description is in the cell of that day if the month of that day was
\* rendered, and in no other cell of any page.
C5_SingleOnItsDate ==
    (pc = "done" /\ "single_events" \in config.events.keys) =>
        \A i \in 1..Len(config.events.single_events) :
            LET e == config.events.single_events[i]
                d == strptime(e.date).date
            IN  /\ \A k \in 1..Len(log) :
                       (\E j \in 1..Len(log[k].event_strings) :
                            log[k].event_strings[j] = e.description)
                       => (log[k].year = d.year /\ log[k].month = d.month /\ log[k].day = d.day)
                /\ \A k \in 1..Len(log) :
                       (log[k].year = d.year /\ log[k].month = d.month /\ log[k].day = d.day)
                       => \E j \in 1..Len(log[k].event_strings) :
                              log[k].event_strings[j] = e.description

\* C6: if validate_config returns any error, no page is built and nothing
\* is saved; if it returns none, the pages built are exactly the entries of
\* months_to_print, in input order, and the document is saved only after
\* the last page.
C6_PagesThenSave ==
    /\ pc = "aborted" => (pages = <<>> /\ log = <<>> /\ ~saved)
    /\ IsPrefix(pages, config.months_to_print)
    /\ saved => pages = config.months_to_print
    /\ (Ended /\ Accepted) => (pages = config.months_to_print /\ saved)

\* C10: for every configuration that validate_config accepts, rendering the
\* months of months_to_print runs to completion without raising.
C10_RenderingNeverRaises == Accepted => pc # "raised"

----------------------------------------------------------------------------
(* Validation alone: validate_config(config) on malformed configurations *)

ValidateTokens ==
    {Str(<<"1", "w">>), Str(<<"1", "0", "m">>), Str(<<"2", "y">>), Str(<<"0", "w">>),
     Str(<<"0", "0", "y">>), Str(<<"w">>), Str(<<"3", "x">>), Str(<<"3">>), Str(<<>>),
     Str(<<"sup2", "w">>), Str(<<"1", "W">>), Str(<<"-", "1", "w">>), NotStr}

ValidateDates ==
    {Text(2025, 2, 3), Str(<<"2", "0", "2", "5", "-", "2", "-", "3">>),
     Text(2025, 2, 30), NotStr}

ValidateKeys ==
    {RequiredRecurring, RequiredRecurring \cup {"end_date"},
     RequiredRecurring \ {"start_date"}, RequiredRecurring \ {"description"}}

ValidateRules ==
    {RecurringEvent(k, t, s, e, d) :
        k \in ValidateKeys, t \in ValidateTokens, s \in ValidateDates,
        e \in {Text(2025, 3, 31), Text(2025, 2, 30)},
        d \in {Str(<<"Sync">>), NotStr}}

ValidateSingleLists ==
    {<<>>, <<Valentine>>,
     <<SingleEvent({"description"}, Text(2025, 2, 30), NotStr)>>,
     <<NotADict, SingleEvent({"date", "description"}, Text(2025, 2, 30), NotStr)>>}

ValidateMonthLists ==
    {<<Str(<<"2", "0", "2", "5", "-", "0", "2">>)>>,
     <<Str(<<"2", "0", "2", "5", "-", "1", "3">>), Str(<<"2", "0", "2", "5">>)>>,
     <<NotStr>>}

\* A mapping with one recurring entry.  When the key 'events' is absent the
\* entries sit elsewhere in the file (under a misspelt or misplaced key),
\* where validate_config does not look.
ValidateConfigs ==
    {Config("dict", keys, TRUE, months, TRUE,
            Events({"single_events", "recurring_events"}, TRUE, singles, TRUE, <<rule>>)) :
        keys \in {{"months_to_print", "events"}, {"months_to_print"}, {"events"}},
        months \in ValidateMonthLists, singles \in ValidateSingleLists,
        rule \in ValidateRules}

InitValidate ==
    /\ config \in ValidateConfigs
                  \cup Configs(ValidateMonthLists, ValidateSingleLists, {<<NotARule, Sync>>})
    /\ pc = "validate"
    /\ exc = "none"
    /\ errors = <<>>
    /\ month_idx = 0
    /\ year = 0
    /\ month = 0
    /\ day = 0
    /\ cal = <<>>
    /\ wk = 0
    /\ col = 0
    /\ events = NoEvents
    /\ date_str = <<>>
    /\ event_strings = <<>>
    /\ log = <<>>
    /\ pages = <<>>
    /\ saved = FALSE

NextValidate == Validate

SpecValidate == InitValidate /\ [][NextValidate]_vars

\* validate_config has returned its list of errors
Validated == pc \in {"aborted", "loop"}

HasError(msg, arg) == \E i \in 1..Len(errors) : errors[i] = Err(msg, arg)

\* The recurring entries of the configuration, wherever the file holds them
RuleEntries == config.events.recurring_events

\* The recurrence grammar: one or more decimal digits that form a positive
\* integer, followed by exactly one of w, m, y
InGrammar(v) ==
    /\ IsStr(v)
    /\ Len(v.s) >= 2
    /\ v.s[Len(v.s)] \in {"w", "m", "y"}
    /\ \A i \in 1..(Len(v.s) - 1) : v.s[i] \in DecimalChars
    /\ \E i \in 1..(Len(v.s) - 1) : v.s[i] # "0"

\* C7: validate_config never raises: whatever the configuration value, the
\* call returns a list of errors.
C7_ValidateNeverRaises == pc # "validate_raised"

\* C8: validate_config runs every check regardless of earlier failures: a
\* configuration missing 'events' that contains the recurrence token "3x"
\* gets at least two distinct errors, and a recurring entry that is missing
\* a required key still has its recurrence token checked and reported.
C8_EveryCheckRuns ==
    Validated =>
        /\ ("events" \notin config.keys
              /\ \E i \in 1..Len(RuleEntries) :
                     RuleEntries[i].recurrence = Str(<<"3", "x">>))
           => Cardinality({errors[i] : i \in 1..Len(errors)}) >= 2
        /\ ("events" \in config.keys /\ config.events_isdict
              /\ "recurring_events" \in config.events.keys /\ config.events.recurring_islist)
           => \A i \in 1..Len(RuleEntries) :
                  (/\ RuleEntries[i].isdict
                   /\ "recurrence" \in RuleEntries[i].keys
                   /\ ~RecurrenceOk(RuleEntries[i].recurrence))
                  => HasError("Invalid recurrence format", RuleEntries[i].recurrence)

\* C9: a recurring entry that has its required keys gets a recurrence-format
\* error exactly when its recurrence value is outside the grammar (digits
\* forming a positive integer, then one of w, m, y); "0w" is an error.
C9_RecurrenceGrammar ==
    (/\ Validated
     /\ "events" \in config.keys /\ config.events_isdict
     /\ "recurring_events" \in config.events.keys /\ config.events.recurring_islist)
    => \A i \in 1..Len(RuleEntries) :
           (RuleEntries[i].isdict /\ RequiredRecurring \subseteq RuleEntries[i].keys)
           => (HasError("Invalid recurrence format", RuleEntries[i].recurrence)
               <=> ~InGrammar(RuleEntries[i].recurrence))

====
